---------------------------- MODULE Spec2Model ----------------------------
(***************************************************************************)
(* A model of the course snapshot pipeline:                                *)
(*   src/extractor/extract_courses.py  (spreadsheet -> extracted.json)     *)
(*   src/pdf/build_pdfs.py             (extracted.json -> one PDF/school)  *)
(*                                                                         *)
(* Text is a sequence of one-character strings, so that every text         *)
(* operation (strip, lower, replace, the regular expressions, f-strings)   *)
(* is computed character by character as Python computes it.               *)
(*                                                                         *)
(* Three specifications share the module:                                  *)
(*   Spec        the extraction run, main() of extract_courses.py          *)
(*   SpecModules one call of extract_modules(soup), one step per loop      *)
(*               iteration, the document revealed as the selectors         *)
(*               iterate over it                                           *)
(*   SpecRender  the rendering run, main() of build_pdfs.py                *)
(***************************************************************************)
EXTENDS Integers, Sequences, FiniteSets, TLC

VARIABLES
    \* ---- main() of extract_courses.py ----
    pc,             \* "idle" | "loop" | "done" | "aborted" (an exception left main)
    rows,           \* the data frame read from courses.xlsx: a sequence of rows
    rowIdx,         \* index of the row df.iterrows() yields next
    results,        \* the list of Course Records built so far
    jsonFile,       \* extracted.json on disk
    jsonBefore,     \* extracted.json as it was when the run started
    fetched,        \* log: every call of fetch_soup, [row, url, ok]
    \* ---- main() of build_pdfs.py ----
    rpc,            \* "idle" | "run" | "done" | "aborted" (an exception left main)
    data,           \* the array read from extracted.json
    dataIdx,        \* index of the course the grouping loop takes next
    schools,        \* the dict school -> list of courses, in insertion order
    schoolIdx,      \* index of the item of schools.items() built next
    files,          \* OUTPUT_DIR: a dict file name -> the story the file was built from
    built,          \* log: every completed call of build_pdf_for_school
    \* ---- extract_modules(soup) ----
    mpc,            \* "idle" | "start" | "panes" | "accordions" | "items" | "done"
    page,           \* which of the three landmarks of the modules section the document has
    modules,        \* the dict being built: a sequence of [key, value] in insertion order
    year_label,     \* label of the tab panel being walked
    year_modules,   \* list of Module Records of the tab panel being walked
    core_optional,  \* "Core"/"Optional" of the accordion being walked (as text)
    accordion_heading, \* the h3.accordion__heading element of the accordion being walked
    paneCount,      \* tab panels taken from the selector so far
    accCount,       \* accordions of the document taken so far
    itemCount,      \* module items of the document taken so far
    kept,           \* log: one entry per appended record, with the place it came from
    paneLabels      \* log: the year label of every tab panel walked, in order

modVars == <<mpc, page, modules, year_label, year_modules, core_optional,
             accordion_heading, paneCount, accCount, itemCount, kept, paneLabels>>

mainVars == <<pc, rows, rowIdx, results, jsonFile, jsonBefore, fetched>>

renderVars == <<rpc, data, dataIdx, schools, schoolIdx, files, built>>

vars == <<mainVars, modVars, renderVars>>

\* the variables an action of one of the three programs leaves alone
notMain == <<modVars, renderVars>>
notModules == <<mainVars, renderVars>>
notRender == <<mainVars, modVars>>

---------------------------------------------------------------------------
(* Bounds of the model: tab panels, accordions and module items of one      *)
(* document                                                                *)

MaxPanels == 2
MaxAccordions == 2
MaxItems == 2
\* rows of the spreadsheet
MaxRows == 3
\* courses of extracted.json
MaxCourses == 3

---------------------------------------------------------------------------
(* Text: characters, Python's str methods *)

UpperChars == <<"A","B","C","D","E","F","G","H","I","J","K","L","M",
                "N","O","P","Q","R","S","T","U","V","W","X","Y","Z">>
LowerChars == <<"a","b","c","d","e","f","g","h","i","j","k","l","m",
                "n","o","p","q","r","s","t","u","v","w","x","y","z">>

\* str.lower() of one character
LowerChar(c) ==
    IF \E i \in 1..Len(UpperChars) : UpperChars[i] = c
    THEN LowerChars[CHOOSE i \in 1..Len(UpperChars) : UpperChars[i] = c]
    ELSE c

\* str.lower()
Lower(s) == [i \in 1..Len(s) |-> LowerChar(s[i])]

\* whitespace as str.strip() and the regular expression class \s see it
IsSpace(c) == c \in {" ", "\n", "\t"}

\* the regular expression class \d
IsDigit(c) == c \in {"0","1","2","3","4","5","6","7","8","9"}

\* index of the first character at or after i that is not whitespace (Len+1 if none)
SkipSpaces(s, i) ==
    IF \E j \in i..Len(s) : ~IsSpace(s[j])
    THEN CHOOSE j \in i..Len(s) : ~IsSpace(s[j]) /\ \A k \in i..(j-1) : IsSpace(s[k])
    ELSE IF i > Len(s) THEN i ELSE Len(s) + 1

\* index of the first character at or after i that is not a digit (Len+1 if none)
SkipDigits(s, i) ==
    IF \E j \in i..Len(s) : ~IsDigit(s[j])
    THEN CHOOSE j \in i..Len(s) : ~IsDigit(s[j]) /\ \A k \in i..(j-1) : IsDigit(s[k])
    ELSE IF i > Len(s) THEN i ELSE Len(s) + 1

\* str.strip()
Strip(s) ==
    LET a == SkipSpaces(s, 1)
    IN  IF a > Len(s) THEN <<>>
        ELSE LET b == CHOOSE j \in a..Len(s) :
                          ~IsSpace(s[j]) /\ \A k \in (j+1)..Len(s) : IsSpace(s[k])
             IN  SubSeq(s, a, b)

\* needle in hay (Python's substring test)
Contains(needle, hay) ==
    \E i \in 1..(Len(hay) - Len(needle) + 1) :
        SubSeq(hay, i, i + Len(needle) - 1) = needle

\* whether s has the text w at index i
HasAt(s, i, w) ==
    /\ i + Len(w) - 1 <= Len(s)
    /\ SubSeq(s, i, i + Len(w) - 1) = w

---------------------------------------------------------------------------
(* Elements of the parsed document.  An element the selector did not find  *)
(* is None; an element that is found carries its text nodes in order.      *)

None == [present |-> FALSE, strings |-> <<>>]
El(strs) == [present |-> TRUE, strings |-> strs]

RECURSIVE JoinStripped(_)
\* " ".join(el.stripped_strings): every text node stripped, the empty ones dropped
JoinStripped(strs) ==
    IF strs = <<>> THEN <<>>
    ELSE LET h == Strip(Head(strs))
             r == JoinStripped(Tail(strs))
         IN  IF h = <<>> THEN r
             ELSE IF r = <<>> THEN h
             ELSE h \o <<" ">> \o r

clean_text(el) == IF ~el.present THEN <<>> ELSE JoinStripped(el.strings)

---------------------------------------------------------------------------
(* Constants of extract_courses.py *)

MODULE_PLACEHOLDER ==
    <<"D","e","t","a","i","l","s"," ","f","o","r"," ","t","h","i","s"," ","m","o","d","u","l","e",
        " ","a","r","e"," ","b","e","i","n","g"," ","f","i","n","a","l","i","s","e","d"," ","a",
        "n","d"," ","w","i","l","l"," ","b","e"," ","u","p","d","a","t","e","d"," ","s","o","o",
        "n",".">>
CREDIT_PLACEHOLDER ==
    <<"C","r","e","d","i","t"," ","v","a","l","u","e"," ","t","o"," ","b","e"," ","c","o","n","f",
        "i","r","m","e","d",".">>

NotApplicable == <<"N","o","t"," ","a","p","p","l","i","c","a","b","l","e">>
YearFallback == <<"Y","e","a","r">>
CoreText == <<"C","o","r","e">>
OptionalText == <<"O","p","t","i","o","n","a","l">>
optionalLower == <<"o","p","t","i","o","n","a","l">>
creditLower == <<"c","r","e","d","i","t">>
closeAllLower == <<"c","l","o","s","e"," ","a","l","l">>

---------------------------------------------------------------------------
(* The two regular expressions *)

\* end (exclusive) of a match of  credits?  (re.I) at index i, 0 if none
MatchCreditWord(s, i) ==
    IF i + 5 <= Len(s) /\ Lower(SubSeq(s, i, i + 5)) = creditLower
    THEN IF i + 6 <= Len(s) /\ LowerChar(s[i + 6]) = "s" THEN i + 7 ELSE i + 6
    ELSE 0

\* end (exclusive) of a match of  (\d+)\s*credits?  (re.I) that starts at i, 0 if none
MatchCredits(s, i) ==
    LET c == SkipDigits(s, i)
    IN  IF c > i THEN MatchCreditWord(s, SkipSpaces(s, c)) ELSE 0

\* end (exclusive) of a match of  \s*-\s*\d+\s*credits?  (re.I) that starts at i, 0 if none
MatchCreditSuffix(s, i) ==
    LET a == SkipSpaces(s, i)
    IN  IF a <= Len(s) /\ s[a] = "-"
        THEN MatchCredits(s, SkipSpaces(s, a + 1))
        ELSE 0

RECURSIVE SubCreditSuffixFrom(_, _)
\* re.sub(r"\s*-\s*\d+\s*credits?", "", s, flags=re.I) from index i on:
\* every leftmost match is dropped, wherever in the text it stands
SubCreditSuffixFrom(s, i) ==
    IF i > Len(s) THEN <<>>
    ELSE LET e == MatchCreditSuffix(s, i)
         IN  IF e > 0 THEN SubCreditSuffixFrom(s, e)
             ELSE <<s[i]>> \o SubCreditSuffixFrom(s, i + 1)

parse_credits(title) ==
    LET starts == {i \in 1..Len(title) : MatchCredits(title, i) > 0}
    IN  IF starts = {} THEN CREDIT_PLACEHOLDER
        ELSE LET i == CHOOSE j \in starts : \A k \in starts : j <= k
                 g == SubSeq(title, i, SkipDigits(title, i) - 1)
             IN  IF g = <<"0">> THEN NotApplicable ELSE g

\* line 92: the module name of a title that was kept
ModuleNameOf(title_text) == Strip(SubCreditSuffixFrom(title_text, 1))

\* mutant of CoreOptionalOf: the heading text is not lowered before the test
CoreOptionalOfCaseSensitive(section_title_el) ==
    LET section_title == IF section_title_el.present
                         THEN clean_text(section_title_el) ELSE <<>>
    IN  IF Contains(optionalLower, section_title) THEN OptionalText ELSE CoreText

\* lines 79-81: Core/Optional from the accordion's heading element
CoreOptionalOf(section_title_el) ==
    LET section_title == IF section_title_el.present
                         THEN Lower(clean_text(section_title_el)) ELSE <<>>
    IN  IF Contains(optionalLower, section_title) THEN OptionalText ELSE CoreText

\* lines 88-90: the test that skips an item
SkipTitle(title_text) == title_text = <<>> \/ Lower(title_text) = closeAllLower

\* lines 95-98
DescriptionOf(desc_container) ==
    LET description == IF desc_container.present THEN clean_text(desc_container)
                       ELSE MODULE_PLACEHOLDER
    IN  IF description = <<>> THEN MODULE_PLACEHOLDER ELSE description

\* lines 72-74: the year label of a tab panel from its labelling button
YearLabelOf(tab_button) == IF tab_button.present THEN clean_text(tab_button) ELSE YearFallback

---------------------------------------------------------------------------
(* A Python dict: a sequence of [key, value] in insertion order *)

DictKeys(d) == {d[i].key : i \in 1..Len(d)}
DictGet(d, k) == d[CHOOSE i \in 1..Len(d) : d[i].key = k].value
\* d[k] = v : a new key is appended, an existing key keeps its place and
\* has its value replaced
DictSet(d, k, v) ==
    IF k \in DictKeys(d)
    THEN [i \in 1..Len(d) |-> IF d[i].key = k THEN [key |-> k, value |-> v] ELSE d[i]]
    ELSE Append(d, [key |-> k, value |-> v])

---------------------------------------------------------------------------
(* main() of extract_courses.py, lines 113-141 *)

OVERVIEW_PLACEHOLDER ==
    <<"C","o","u","r","s","e"," ","o","v","e","r","v","i","e","w"," ","d","e","t","a","i","l","s",
        " ","a","r","e"," ","b","e","i","n","g"," ","f","i","n","a","l","i","s","e","d"," ","a",
        "n","d"," ","w","i","l","l"," ","b","e"," ","u","p","d","a","t","e","d"," ","s","o","o",
        "n",".">>
HIGHLIGHTS_PLACEHOLDER ==
    << <<"D","e","t","a","i","l","s"," ","a","r","e"," ","b","e","i","n","g"," ","f","i","n","a",
        "l","i","s","e","d"," ","a","n","d"," ","w","i","l","l"," ","b","e"," ","u","p","d","a",
        "t","e","d"," ","s","o","o","n",".">> >>

\* a spreadsheet cell as pandas reads it: an empty cell is NaN, any other cell
\* is its text
NaN == [nan |-> TRUE, text |-> <<>>]
Cell(text) == [nan |-> FALSE, text |-> text]

\* str(value) of a cell: str(float("nan")) is "nan"
StrOf(cell) == IF cell.nan THEN <<"n","a","n">> ELSE cell.text

\* the rows the spreadsheet is drawn from
SheetRows ==
    { [Faculty |-> Cell(<<"B","A","L">>), School |-> Cell(<<"L","a","w">>), Title |-> Cell(<<"L",
        "L","B">>),
       Award |-> Cell(<<"L","L","B"," ","(","H","o","n","s",")">>), URL |-> Cell(<<"h","t","t","p",
           ":","/","/","a">>)],
      [Faculty |-> NaN, School |-> Cell(<<"A"," ","B">>), Title |-> Cell(<<"A","r","t">>),
       Award |-> Cell(<<"B","A">>), URL |-> Cell(<<" ","h","t","t","p",":","/","/","b","\n">>)],
      [Faculty |-> Cell(<<"C","C","I">>), School |-> Cell(<<"F","i","l",
          "m">>), Title |-> Cell(<<"F","i","l","m">>),
       Award |-> NaN, URL |-> NaN],
      [Faculty |-> Cell(<<"T","E","C">>), School |-> Cell(<<"M","a","t","h",
          "s">>), Title |-> Cell(<<"M","M","a","t","h">>),
       Award |-> Cell(<<"M","M","a","t","h">>), URL |-> Cell(<<" ","\t"," ">>)] }

\* A fetched document, as what the three extractors return on it (the
\* extraction of the modules itself is SpecModules).
Soups ==
    { [overview |-> OVERVIEW_PLACEHOLDER, highlights |-> HIGHLIGHTS_PLACEHOLDER,
       modules |-> <<>>],
      [overview |-> <<"I","n","t","r","o">>, highlights |-> << <<"H","i">> >>,
       modules |-> << [key |-> <<"Y","e","a","r"," ","1">>,
                      value |-> << [module_name |-> <<"M","a","t","h","s">>, credits |-> <<"1",
                          "5">>,
                                    core_optional |-> CoreText,
                                    description |-> MODULE_PLACEHOLDER] >>] >>] }

\* line 119
UrlOf(row) == Strip(StrOf(row.URL))

\* requests.get(url): a URL without a scheme raises MissingSchema before any
\* request is sent
HasScheme(url) == Contains(<<":","/","/">>, url)

\* mutant of CourseOf: the school is taken from the Faculty column
CourseOfWrongColumn(row, url, soup) ==
    [faculty |-> row.Faculty, school |-> row.Faculty, title |-> row.Title,
     award |-> row.Award, url |-> url, overview |-> soup.overview,
     highlights |-> soup.highlights, modules |-> soup.modules]

\* lines 127-136
CourseOf(row, url, soup) ==
    [faculty |-> row.Faculty, school |-> row.School, title |-> row.Title,
     award |-> row.Award, url |-> url, overview |-> soup.overview,
     highlights |-> soup.highlights, modules |-> soup.modules]

\* lines 118-121: the row's URL is empty after strip, the row is skipped
SkipRow ==
    /\ pc = "loop"
    /\ rowIdx <= Len(rows)
    /\ UrlOf(rows[rowIdx]) = <<>>
    /\ rowIdx' = rowIdx + 1
    /\ UNCHANGED <<pc, rows, results, jsonFile, jsonBefore, fetched>>
    /\ UNCHANGED notMain

\* lines 118-138: the page is fetched and its Course Record appended
ExtractRow(soup) ==
    /\ pc = "loop"
    /\ rowIdx <= Len(rows)
    /\ LET url == UrlOf(rows[rowIdx])
       IN  /\ url # <<>>
           /\ HasScheme(url)
           /\ fetched' = Append(fetched, [row |-> rowIdx, url |-> url, ok |-> TRUE])
           /\ results' = Append(results, CourseOf(rows[rowIdx], url, soup))
    /\ rowIdx' = rowIdx + 1
    /\ UNCHANGED <<pc, rows, jsonFile, jsonBefore>>
    /\ UNCHANGED notMain

\* mutant of FetchFails: the failure is swallowed and the loop goes on
FetchFailsRowSkipped ==
    /\ pc = "loop"
    /\ rowIdx <= Len(rows)
    /\ LET url == UrlOf(rows[rowIdx])
       IN  /\ url # <<>>
           /\ fetched' = Append(fetched, [row |-> rowIdx, url |-> url, ok |-> FALSE])
    /\ rowIdx' = rowIdx + 1
    /\ UNCHANGED <<pc, rows, results, jsonFile, jsonBefore>>
    /\ UNCHANGED notMain

\* lines 23-25, 125: requests.get or raise_for_status raises (no scheme,
\* network error, timeout, HTTP status); nothing catches it and main ends
FetchFails ==
    /\ pc = "loop"
    /\ rowIdx <= Len(rows)
    /\ LET url == UrlOf(rows[rowIdx])
       IN  /\ url # <<>>
           /\ fetched' = Append(fetched, [row |-> rowIdx, url |-> url, ok |-> FALSE])
    /\ pc' = "aborted"
    /\ UNCHANGED <<rows, rowIdx, results, jsonFile, jsonBefore>>
    /\ UNCHANGED notMain

\* lines 140-141: the loop is over, the list is written
WriteJson ==
    /\ pc = "loop"
    /\ rowIdx > Len(rows)
    /\ jsonFile' = [exists |-> TRUE, courses |-> results]
    /\ pc' = "done"
    /\ UNCHANGED <<rows, rowIdx, results, jsonBefore, fetched>>
    /\ UNCHANGED notMain

\* sequences over S of length at most n
SeqUpTo(S, n) == UNION {[1..k -> S] : k \in 0..n}

\* extracted.json before the run: absent, or left by an earlier run
FilesBefore ==
    { [exists |-> FALSE, courses |-> <<>>],
      [exists |-> TRUE, courses |-> <<>>] }

\* extract_modules is not running
IdleModules ==
    /\ mpc = "idle"
    /\ page = [modules_h2 |-> FALSE, study_heading |-> FALSE, tabs_container |-> FALSE]
    /\ modules = <<>>
    /\ year_label = <<>>
    /\ year_modules = <<>>
    /\ core_optional = CoreText
    /\ accordion_heading = None
    /\ paneCount = 0
    /\ accCount = 0
    /\ itemCount = 0
    /\ kept = <<>>
    /\ paneLabels = <<>>

\* build_pdfs.py is not running
IdleRender ==
    /\ rpc = "idle"
    /\ data = <<>>
    /\ dataIdx = 1
    /\ schools = <<>>
    /\ schoolIdx = 1
    /\ files = <<>>
    /\ built = <<>>

\* main is not running
IdleMain ==
    /\ pc = "idle"
    /\ rows = <<>>
    /\ rowIdx = 1
    /\ results = <<>>
    /\ jsonFile = [exists |-> FALSE, courses |-> <<>>]
    /\ jsonBefore = jsonFile
    /\ fetched = <<>>

Init ==
    /\ IdleModules
    /\ IdleRender
    /\ pc = "loop"
    /\ rows \in SeqUpTo(SheetRows, MaxRows)
    /\ rowIdx = 1
    /\ results = <<>>
    /\ jsonFile \in FilesBefore
    /\ jsonBefore = jsonFile
    /\ fetched = <<>>

Next ==
    \/ SkipRow
    \/ \E soup \in Soups : ExtractRow(soup)
    \/ FetchFails
    \/ WriteJson

Spec == Init /\ [][Next]_vars


---------------------------------------------------------------------------
(* Claims about the extraction run, checked under Spec *)

\* the 'Course URL' cell is blank: an empty cell, or nothing but whitespace
BlankUrlCell(cell) == cell.nan \/ \A i \in 1..Len(cell.text) : IsSpace(cell.text[i])

\* the indices of the rows whose URL cell is not blank, in row order
NonBlankRowIdx ==
    LET NotBlank(i) == ~BlankUrlCell(rows[i].URL)
    IN  SelectSeq([i \in 1..Len(rows) |-> i], NotBlank)

\* C1: when every fetch of a run succeeds, the run writes exactly one Course
\* Record per row with a non-blank URL, in row order, with faculty, school,
\* title and award as they stand in that row.
C1_OneRecordPerNonBlankRow ==
    (pc = "done" /\ \A i \in 1..Len(fetched) : fetched[i].ok) =>
        /\ jsonFile.exists
        /\ Len(jsonFile.courses) = Len(NonBlankRowIdx)
        /\ \A k \in 1..Len(NonBlankRowIdx) :
               LET c == jsonFile.courses[k]
                   r == rows[NonBlankRowIdx[k]]
               IN  /\ c.faculty = r.Faculty
                   /\ c.school = r.School
                   /\ c.title = r.Title
                   /\ c.award = r.Award

\* C1 witness: a run over three rows has written two records of different
\* rows, one row having been skipped
C1_Witness ==
    /\ pc = "done"
    /\ Len(rows) = 3
    /\ Len(jsonFile.courses) = 2
    /\ jsonFile.courses[1].school # jsonFile.courses[2].school

\* C2: no fetch is attempted for a row whose URL cell is blank (an empty
\* cell, or whitespace only), and no Course Record is made for it.
C2_BlankRowNeverFetched ==
    /\ \A i \in 1..Len(fetched) : ~BlankUrlCell(rows[fetched[i].row].URL)
    /\ Len(results) <= Len(NonBlankRowIdx)

\* C3: a fetch that fails is the last fetch of the run, the run is over, and
\* extracted.json is as it was before the run.
C3_FetchFailureAborts ==
    \A i \in 1..Len(fetched) :
        ~fetched[i].ok =>
            /\ i = Len(fetched)
            /\ pc = "aborted"
            /\ jsonFile = jsonBefore

\* C3 witness: a fetch failed after a course had been extracted and before
\* the last row, and the file is untouched
C3_Witness ==
    /\ pc = "aborted"
    /\ Len(results) >= 1
    /\ rowIdx < Len(rows)
    /\ jsonFile = jsonBefore

---------------------------------------------------------------------------
(* The documents extract_modules is run on.  The page is what the three     *)
(* landmark lookups of lines 59-69 find; tab panels, accordions and module  *)
(* items are what the three select() calls yield, one per loop iteration.   *)
(* Tab panels and accordions are not nested in one another.                 *)

Pages == [modules_h2 : BOOLEAN, study_heading : BOOLEAN, tabs_container : BOOLEAN]

\* what soup.find(id=tab_id) finds for a tab panel
TabButtons ==
    { None,
      El(<< <<" ","Y","e","a","r"," ","1","\n">> >>) }

\* what accordion.find("h3", class_="accordion__heading") finds
AccordionHeadings ==
    { None,
      El(<<<<"C","o","r","e"," ","m","o","d","u","l","e","s">>>>),
      El(<<<<"O","p","t","i","o","n","a","l"," ","m","o","d","u","l","e","s">>>>) }

\* div.accordion-item--module elements: the title span and the content container
ModuleItems ==
    { [title |-> None, desc |-> El(<<<<"I","n","t","r","o">>>>)],
      [title |-> El(<<<<" "," ">>>>), desc |-> El(<<<<"I","n","t","r","o">>>>)],
      [title |-> El(<<<<"M","a","t","h","s"," ","-"," ","1","5"," ","c","r","e","d","i","t",
          "s">>>>), desc |-> El(<<<<"I","n","t","r","o">>>>)],
      [title |-> El(<<<<"-"," ","1","5"," ","c","r","e","d","i","t","s">>>>), desc |-> None],
      [title |-> El(<<<<"C","L","O","S","E">>, <<" ","A","L","L","\n">>>>), desc |-> None],
      [title |-> El(<<<<"C","l","o","s","e"," ","A","l","l"," ","-"," ","1","5"," ","c","r","e",
          "d","i","t","s">>>>), desc |-> El(<<>>)] }

---------------------------------------------------------------------------
(* extract_modules(soup), lines 56-110 *)

\* lines 100-105
ModuleRecord(title_text, core, desc_container) ==
    [module_name |-> ModuleNameOf(title_text),
     credits |-> parse_credits(title_text),
     core_optional |-> core,
     description |-> DescriptionOf(desc_container)]

\* the entry of the log for a record appended at the current place
KeptEntry(rec) ==
    [pane |-> paneCount, label |-> year_label, heading |-> accordion_heading,
     record |-> rec]

\* lines 57-69: a landmark is missing, the empty dict is returned
ReturnNoSection ==
    /\ mpc = "start"
    /\ ~(page.modules_h2 /\ page.study_heading /\ page.tabs_container)
    /\ mpc' = "done"
    /\ UNCHANGED <<page, modules, year_label, year_modules, core_optional,
                   accordion_heading, paneCount, accCount, itemCount, kept, paneLabels>>
    /\ UNCHANGED notModules

\* lines 57-69: all three landmarks found, the loop over the tab panels starts
EnterTabs ==
    /\ mpc = "start"
    /\ page.modules_h2 /\ page.study_heading /\ page.tabs_container
    /\ mpc' = "panes"
    /\ UNCHANGED <<page, modules, year_label, year_modules, core_optional,
                   accordion_heading, paneCount, accCount, itemCount, kept, paneLabels>>
    /\ UNCHANGED notModules

\* lines 71-76: the next tab panel
NextTabpane(tab_button) ==
    /\ mpc = "panes"
    /\ paneCount < MaxPanels
    /\ year_label' = YearLabelOf(tab_button)
    /\ year_modules' = <<>>
    /\ paneCount' = paneCount + 1
    /\ paneLabels' = Append(paneLabels, YearLabelOf(tab_button))
    /\ mpc' = "accordions"
    /\ UNCHANGED <<page, modules, core_optional, accordion_heading, accCount, itemCount,
                   kept>>
    /\ UNCHANGED notModules

\* lines 78-81: the next accordion of the panel
NextAccordion(section_title_el) ==
    /\ mpc = "accordions"
    /\ accCount < MaxAccordions
    /\ accordion_heading' = section_title_el
    /\ core_optional' = CoreOptionalOf(section_title_el)
    /\ accCount' = accCount + 1
    /\ mpc' = "items"
    /\ UNCHANGED <<page, modules, year_label, year_modules, kept, paneCount, itemCount,
                   paneLabels>>
    /\ UNCHANGED notModules

\* lines 83-86: the next item has no title span
ItemWithoutTitle(item) ==
    /\ mpc = "items"
    /\ itemCount < MaxItems
    /\ ~item.title.present
    /\ itemCount' = itemCount + 1
    /\ UNCHANGED <<mpc, page, modules, year_label, year_modules, core_optional,
                   accordion_heading, paneCount, accCount, kept, paneLabels>>
    /\ UNCHANGED notModules

\* lines 88-90: the next item's title is empty or "close all"
ItemSkipped(item) ==
    /\ mpc = "items"
    /\ itemCount < MaxItems
    /\ item.title.present
    /\ SkipTitle(clean_text(item.title))
    /\ itemCount' = itemCount + 1
    /\ UNCHANGED <<mpc, page, modules, year_label, year_modules, core_optional,
                   accordion_heading, paneCount, accCount, kept, paneLabels>>
    /\ UNCHANGED notModules

\* lines 92-105: the next item is kept and its record appended
ItemKept(item) ==
    /\ mpc = "items"
    /\ itemCount < MaxItems
    /\ item.title.present
    /\ ~SkipTitle(clean_text(item.title))
    /\ LET rec == ModuleRecord(clean_text(item.title), core_optional, item.desc)
       IN  /\ year_modules' = Append(year_modules, rec)
           /\ kept' = Append(kept, KeptEntry(rec))
    /\ itemCount' = itemCount + 1
    /\ UNCHANGED <<mpc, page, modules, year_label, core_optional,
                   accordion_heading, paneCount, accCount, paneLabels>>
    /\ UNCHANGED notModules

\* line 83: the accordion has no more items
EndAccordion ==
    /\ mpc = "items"
    /\ mpc' = "accordions"
    /\ UNCHANGED <<page, modules, year_label, year_modules, core_optional,
                   accordion_heading, paneCount, accCount, itemCount, kept, paneLabels>>
    /\ UNCHANGED notModules

\* mutant of StoreYear: the year list is stored without the test of line 107
StoreYearAlways(d, label, mods) == DictSet(d, label, mods)

\* lines 107-108: what the end of a tab panel stores
StoreYear(d, label, mods) == IF mods # <<>> THEN DictSet(d, label, mods) ELSE d

\* lines 78, 107-108: the panel has no more accordions
EndTabpane ==
    /\ mpc = "accordions"
    /\ modules' = StoreYear(modules, year_label, year_modules)
    /\ mpc' = "panes"
    /\ UNCHANGED <<page, year_label, year_modules, core_optional,
                   accordion_heading, paneCount, accCount, itemCount, kept, paneLabels>>
    /\ UNCHANGED notModules

\* lines 71, 110: no more tab panels, the dict is returned
ReturnModules ==
    /\ mpc = "panes"
    /\ mpc' = "done"
    /\ UNCHANGED <<page, modules, year_label, year_modules, core_optional,
                   accordion_heading, paneCount, accCount, itemCount, kept, paneLabels>>
    /\ UNCHANGED notModules

InitModules ==
    /\ IdleMain
    /\ IdleRender
    /\ mpc = "start"
    /\ page \in Pages
    /\ modules = <<>>
    /\ year_label = <<>>
    /\ year_modules = <<>>
    /\ core_optional = CoreText
    /\ accordion_heading = None
    /\ paneCount = 0
    /\ accCount = 0
    /\ itemCount = 0
    /\ kept = <<>>
    /\ paneLabels = <<>>

NextModules ==
    \/ ReturnNoSection
    \/ EnterTabs
    \/ \E b \in TabButtons : NextTabpane(b)
    \/ \E h \in AccordionHeadings : NextAccordion(h)
    \/ \E it \in ModuleItems : ItemWithoutTitle(it)
    \/ \E it \in ModuleItems : ItemSkipped(it)
    \/ \E it \in ModuleItems : ItemKept(it)
    \/ EndAccordion
    \/ EndTabpane
    \/ ReturnModules

SpecModules == InitModules /\ [][NextModules]_vars

---------------------------------------------------------------------------
(* Claims about extract_modules, checked under SpecModules *)

\* the records the log holds for tab panel number p, in the order appended
KeptOfPane(p) ==
    LET OfPane(e) == e.pane = p
        es == SelectSeq(kept, OfPane)
    IN  [i \in 1..Len(es) |-> es[i].record]

\* the records the log holds under a year label, in the order appended
KeptOfLabel(label) ==
    LET OfLabel(e) == e.label = label
        es == SelectSeq(kept, OfLabel)
    IN  [i \in 1..Len(es) |-> es[i].record]

\* the records of a list, as a set
RecordsOf(list) == {list[j] : j \in 1..Len(list)}

\* every Module Record of the returned mapping
ReturnedRecords == UNION {RecordsOf(modules[i].value) : i \in 1..Len(modules)}

\* C4: every Module Record of the mapping extract_modules returns has a
\* non-empty module_name, whatever the item titles are.
C4_ModuleNameNonEmpty ==
    mpc = "done" => \A r \in ReturnedRecords : r.module_name # <<>>

\* C5: no Module Record of the mapping extract_modules returns is named
\* "close all", ignoring case, whatever the raw item titles are.
C5_NoCloseAllRecord ==
    mpc = "done" => \A r \in ReturnedRecords : Lower(r.module_name) # closeAllLower

\* the heading text of an accordion contains "optional", ignoring case
HeadingSaysOptional(el) ==
    /\ el.present
    /\ LET text == clean_text(el)
       IN  \E i \in 1..Len(text) :
               /\ i + 7 <= Len(text)
               /\ [k \in 1..8 |-> LowerChar(text[i + k - 1])] = optionalLower

\* the accordion headings of the model whose text contains "optional"
OptionalHeadings == {h \in AccordionHeadings : HeadingSaysOptional(h)}

\* headings beyond those of the model's documents: empty, upper case, split
\* over two text nodes, "optional" inside a longer word
HeadingProbes ==
    AccordionHeadings \cup
    { El(<< <<" ","\n">> >>),
      El(<< <<"O","P","T","I","O","N","A","L">> >>),
      El(<< <<"O","p","t">>, <<"i","o","n","a","l">> >>),
      El(<< <<"N","o","n","-","o","p","t","i","o","n","a","l","s">> >>) }

\* Core/Optional of every probe heading is decided by "optional" in its text
ProbesAgree ==
    \A h \in HeadingProbes :
        CoreOptionalOf(h) = IF HeadingSaysOptional(h) THEN OptionalText ELSE CoreText

\* C6: every kept module item has one Module Record, whose core_optional is
\* "Optional" if the heading of the accordion enclosing the item contains
\* "optional" (any case) and "Core" otherwise, a missing or empty heading
\* included; the lists of the mapping hold exactly such records.
C6_CoreOptionalByOwnAccordion ==
    /\ ProbesAgree
    /\ \A i \in 1..Len(kept) :
           kept[i].record.core_optional =
               IF kept[i].heading \in OptionalHeadings THEN OptionalText ELSE CoreText
    /\ mpc \in {"accordions", "items"} => year_modules = KeptOfPane(paneCount)
    /\ \A i \in 1..Len(modules) :
           \E p \in 1..paneCount :
               /\ paneLabels[p] = modules[i].key
               /\ modules[i].value = KeptOfPane(p)

\* C6 witness: a returned year list holds a Core and an Optional record, from
\* two accordions of the same tab panel
C6_Witness ==
    /\ mpc = "done"
    /\ \E i \in 1..Len(modules) :
           /\ \E r \in RecordsOf(modules[i].value) : r.core_optional = CoreText
           /\ \E r \in RecordsOf(modules[i].value) : r.core_optional = OptionalText

\* C7: no year label of the mapping maps to an empty list, a tab panel from
\* which no item was kept contributes no key, and the mapping is empty when
\* one of the three landmarks is missing.
C7_NoEmptyYear ==
    /\ \A i \in 1..Len(modules) : modules[i].value # <<>>
    /\ \A k \in DictKeys(modules) : KeptOfLabel(k) # <<>>
    /\ (mpc = "done" /\ ~(page.modules_h2 /\ page.study_heading /\ page.tabs_container))
           => modules = <<>>

\* C7 witness: a mapping is returned that has a key, and a tab panel was
\* walked that kept no item and whose label is no key
C7_Witness ==
    /\ mpc = "done"
    /\ modules # <<>>
    /\ \E p \in 1..paneCount :
           KeptOfPane(p) = <<>> /\ paneLabels[p] \notin DictKeys(modules)

\* C10: every kept module item is in the returned mapping under the year
\* label of its tab panel, in document order, also when two tab panels have
\* the same year label.
C10_NoModuleLost ==
    mpc = "done" =>
        \A i \in 1..Len(kept) :
            /\ kept[i].label \in DictKeys(modules)
            /\ DictGet(modules, kept[i].label) = KeptOfLabel(kept[i].label)

---------------------------------------------------------------------------
(* build_pdfs.py.  A character outside ASCII is written as the name of its *)
(* code point ("U+2022" is the bullet).  A story is the list of flowables  *)
(* handed to the layout engine; paragraph styles are named, the table      *)
(* style and column widths (lines 165-175) are layout only and left out.   *)

\* lines 28-34
FACULTY_MAP ==
    << [key |-> <<"B","A","L">>, value |-> <<"F","a","c","u","l","t","y"," ","o","f"," ","B","u",
        "s","i","n","e","s","s"," ","a","n","d"," ","L","a","w">>],
       [key |-> <<"C","C","I">>, value |-> <<"F","a","c","u","l","t","y"," ","o","f"," ","C","r",
           "e","a","t","i","v","e"," ","a","n","d"," ","C","u","l","t","u","r","a","l"," ","I","n",
           "d","u","s","t","r","i","e","s">>],
       [key |-> <<"H","S","S">>, value |-> <<"F","a","c","u","l","t","y"," ","o","f"," ","H","u",
           "m","a","n","i","t","i","e","s"," ","a","n","d"," ","S","o","c","i","a","l"," ","S","c",
           "i","e","n","c","e","s">>],
       [key |-> <<"S","A","H">>, value |-> <<"F","a","c","u","l","t","y"," ","o","f"," ","S","c",
           "i","e","n","c","e"," ","a","n","d"," ","H","e","a","l","t","h">>],
       [key |-> <<"T","E","C">>, value |-> <<"F","a","c","u","l","t","y"," ","o","f"," ","T","e",
           "c","h","n","o","l","o","g","y">>] >>

\* lines 103-110
intro ==
    << <<"C","o","u","r","s","e"," ","a","n","d"," ","m","o","d","u","l","e"," ","u","p","d","a",
        "t","e","s"," ","U+2013"," ","C","o","u","r","s","e"," ","s","n","a","p","s","h","o","t",
        " ","f","o","r"," ","S","e","p","t","e","m","b","e","r"," ","2","0","2","6"," ","e","n",
        "t","r","y">>,
       <<"W","e","U+2019","r","e"," ","p","l","e","a","s","e","d"," ","t","o"," ","s","h","a","r",
           "e"," ","t","h","e","s","e"," ","u","p","d","a","t","e","s"," ","t","o"," ","y","o","u",
           "r"," ","c","h","o","s","e","n"," ","c","o","u","r","s","e","(","s",")",".">>,
       <<"S","o","m","e"," ","m","o","d","u","l","e","s"," ","h","a","v","e"," ","b","e","e","n",
           " ","r","e","f","i","n","e","d"," ","i","n","t","o"," ","1","5","-","c","r","e","d","i",
           "t"," ","i","n","c","r","e","m","e","n","t","s"," ","(","1","5",","," ","3","0",","," ",
           "4","5",","," ","6","0",","," ","o","r"," ","1","2","0"," ","c","r","e","d","i","t","s",
           ")"," ","t","o"," ","p","r","o","v","i","d","e"," ","a"," ","m","o","r","e"," ","f","l",
           "e","x","i","b","l","e"," ","a","n","d"," ","e","n","r","i","c","h","i","n","g"," ","l",
           "e","a","r","n","i","n","g"," ","e","x","p","e","r","i","e","n","c","e",".">>,
       <<"T","h","i","s"," ","d","o","c","u","m","e","n","t"," ","p","r","o","v","i","d","e","s",
           " ","a"," ","c","l","e","a","r"," ","s","n","a","p","s","h","o","t"," ","o","f"," ","c",
           "o","u","r","s","e"," ","i","n","f","o","r","m","a","t","i","o","n"," ","a","t"," ","t",
           "h","e"," ","t","i","m","e"," ","o","f"," ","p","u","b","l","i","c","a","t","i","o","n",
           " ","f","o","r"," ","y","o","u","r"," ","r","e","f","e","r","e","n","c","e",".">>,
       <<"P","u","b","l","i","c","a","t","i","o","n"," ","d","a","t","e",":"," ","F","e","b","r",
           "u","a","r","y"," ","2","0","2","6">> >>

Paragraph(text, style) ==
    [kind |-> "Paragraph", text |-> text, style |-> style, width |-> 0, height |-> 0,
     rows |-> <<>>]
Spacer(width, height) ==
    [kind |-> "Spacer", text |-> <<>>, style |-> "", width |-> width, height |-> height,
     rows |-> <<>>]
PageBreak ==
    [kind |-> "PageBreak", text |-> <<>>, style |-> "", width |-> 0, height |-> 0,
     rows |-> <<>>]
\* Table(table_data, ...)
Table(table_data) ==
    [kind |-> "Table", text |-> <<>>, style |-> "", width |-> 0, height |-> 0,
     rows |-> table_data]

RECURSIVE Flatten(_)
\* the concatenation of a sequence of sequences
Flatten(ss) == IF ss = <<>> THEN <<>> ELSE Head(ss) \o Flatten(Tail(ss))

DigitChars == <<"0","1","2","3","4","5","6","7","8","9">>

RECURSIVE StrOfInt(_)
\* str(n) of a natural number, as an f-string formats it
StrOfInt(n) ==
    IF n < 10 THEN <<DigitChars[n + 1]>>
    ELSE StrOfInt(n \div 10) \o <<DigitChars[(n % 10) + 1]>>

\* str.replace(old, new) for one-character old and new
Replace(s, old, new) == [i \in 1..Len(s) |-> IF s[i] = old THEN new ELSE s[i]]

\* line 43: the name of the output file in OUTPUT_DIR
OutputFileOf(school_name) ==
    Replace(school_name, " ", "_") \o <<"_","C","o","u","r","s","e","_","S","n","a","p","s","h",
        "o","t",".","p","d","f">>

\* lines 40-41
FacultyNameOf(courses) ==
    LET faculty_code == Strip(courses[1].faculty)
    IN  IF faculty_code \in DictKeys(FACULTY_MAP)
        THEN DictGet(FACULTY_MAP, faculty_code)
        ELSE faculty_code

\* lines 125, 136: idx is the 0-based position of the course in the list
AnchorOf(idx) == <<"c","o","u","r","s","e","_">> \o StrOfInt(idx)

\* lines 100-116
TitlePage(faculty_name, school_name) ==
    << Paragraph(faculty_name, "FacultyTitle"), Paragraph(school_name, "SchoolTitle") >>
    \o Flatten([i \in 1..Len(intro) |-> << Paragraph(intro[i], "Normal"), Spacer(1, 8) >>])
    \o << PageBreak >>

\* lines 125-128
TocEntry(idx, course) ==
    << Paragraph(<<"<","l","i","n","k"," ","h","r","e","f","=","\"",
        "#">> \o AnchorOf(idx) \o <<"\"",">">> \o course.title \o <<"<","/","l","i","n","k",">">>,
                 "Normal"),
       Spacer(1, 6) >>

\* lines 121-130
ContentsPage(courses) ==
    << Paragraph(<<"C","o","n","t","e","n","t","s">>, "SectionHeading"), Spacer(1, 12) >>
    \o Flatten([i \in 1..Len(courses) |-> TocEntry(i - 1, courses[i])])
    \o << PageBreak >>

\* lines 155-163
TableData(mods) ==
    << << <<"M","o","d","u","l","e"," ","n","a","m","e">>, <<"C","r","e","d","i","t","s">>, <<"C",
        "o","r","e"," ","/"," ","O","p","t","i","o","n","a","l">>, <<"D","e","s","c","r","i","p",
        "t","i","o","n">> >> >>
    \o [j \in 1..Len(mods) |->
           << Paragraph(mods[j].module_name, "Normal"),
              Paragraph(mods[j].credits, "Normal"),
              Paragraph(mods[j].core_optional, "Normal"),
              Paragraph(mods[j].description, "Normal") >>]

\* lines 152-178
YearTables(mods) ==
    Flatten([y \in 1..Len(mods) |->
                << Paragraph(mods[y].key, "SectionHeading"),
                   Table(TableData(mods[y].value)),
                   Spacer(1, 12) >>])

\* mutant of CourseSection: the anchor is numbered from 1
CourseSectionOneBased(idx, course) ==
    << Paragraph(<<"<","a"," ","n","a","m","e","=","\"">> \o AnchorOf(idx + 1) \o <<"\"","/",
        ">">> \o course.title, "CourseTitle"),
       Paragraph(<<"O","v","e","r","v","i","e","w">>, "SectionHeading"),
       Paragraph(course.overview, "Normal"),
       Paragraph(<<"C","o","u","r","s","e"," ","h","i","g","h","l","i","g","h","t",
           "s">>, "SectionHeading") >>
    \o [h \in 1..Len(course.highlights) |->
           Paragraph(<<"U+2022"," ">> \o course.highlights[h], "Normal")]
    \o << Paragraph(<<"M","o","d","u","l","e","s">>, "SectionHeading") >>
    \o YearTables(course.modules)
    \o << PageBreak >>

\* lines 136-180
CourseSection(idx, course) ==
    << Paragraph(<<"<","a"," ","n","a","m","e","=","\"">> \o AnchorOf(idx) \o <<"\"","/",
        ">">> \o course.title, "CourseTitle"),
       Paragraph(<<"O","v","e","r","v","i","e","w">>, "SectionHeading"),
       Paragraph(course.overview, "Normal"),
       Paragraph(<<"C","o","u","r","s","e"," ","h","i","g","h","l","i","g","h","t",
           "s">>, "SectionHeading") >>
    \o [h \in 1..Len(course.highlights) |->
           Paragraph(<<"U+2022"," ">> \o course.highlights[h], "Normal")]
    \o << Paragraph(<<"M","o","d","u","l","e","s">>, "SectionHeading") >>
    \o YearTables(course.modules)
    \o << PageBreak >>

\* lines 95-180: the story of one school's document
StoryOf(school_name, courses) ==
    TitlePage(FacultyNameOf(courses), school_name)
    \o ContentsPage(courses)
    \o Flatten([i \in 1..Len(courses) |-> CourseSection(i - 1, courses[i])])

\* line 191: schools.setdefault(course["school"], []).append(course)
SetDefaultAppend(d, k, course) ==
    IF k \in DictKeys(d) THEN DictSet(d, k, Append(DictGet(d, k), course))
    ELSE DictSet(d, k, <<course>>)

\* the Course Records extracted.json is drawn from
JsonCourses ==
    { [faculty |-> <<"C","C","I">>, school |-> <<"A"," ","B">>, title |-> <<"A","r",
        "t">>, award |-> <<"B","A">>,
       url |-> <<"h","t","t","p",":","/","/","a">>, overview |-> <<"I","n","t","r",
           "o">>, highlights |-> << <<"H","i">> >>,
       modules |-> << [key |-> <<"Y","e","a","r"," ","1">>,
                      value |-> << [module_name |-> <<"M","a","t","h","s">>, credits |-> <<"1",
                          "5">>,
                                    core_optional |-> CoreText,
                                    description |-> MODULE_PLACEHOLDER] >>] >>],
      [faculty |-> <<" ","X","Y","Z">>, school |-> <<"A"," ","B">>, title |-> <<"D","e","s","i",
          "g","n">>, award |-> <<"B","A">>,
       url |-> <<"h","t","t","p",":","/","/","b">>, overview |-> OVERVIEW_PLACEHOLDER,
       highlights |-> HIGHLIGHTS_PLACEHOLDER, modules |-> <<>>],
      [faculty |-> <<"C","C","I">>, school |-> <<"A","_","B">>, title |-> <<"F","i","l",
          "m">>, award |-> <<"B","A">>,
       url |-> <<"h","t","t","p",":","/","/","c">>, overview |-> <<"I","n","t","r",
           "o">>, highlights |-> <<>>,
       modules |-> <<>>],
      [faculty |-> <<"B","A","L">>, school |-> <<"L","a","w">>, title |-> <<"L","L",
          "B">>, award |-> <<"L","L","B">>,
       url |-> <<"h","t","t","p",":","/","/","d">>, overview |-> <<"I","n","t","r",
           "o">>, highlights |-> << <<"H","i">> >>,
       modules |-> <<>>] }

\* lines 190-191: the next course is put into its school's list
GroupCourse ==
    /\ rpc = "run"
    /\ dataIdx <= Len(data)
    /\ schools' = SetDefaultAppend(schools, data[dataIdx].school, data[dataIdx])
    /\ dataIdx' = dataIdx + 1
    /\ UNCHANGED <<rpc, data, schoolIdx, files, built>>
    /\ UNCHANGED notRender

\* lines 193-194, 39-182: the next school's document is built and written
BuildSchool ==
    /\ rpc = "run"
    /\ dataIdx > Len(data)
    /\ schoolIdx <= Len(schools)
    /\ LET school_name == schools[schoolIdx].key
           courses == schools[schoolIdx].value
           output_file == OutputFileOf(school_name)
           story == StoryOf(school_name, courses)
       IN  /\ files' = DictSet(files, output_file, story)
           /\ built' = Append(built, [school |-> school_name, file |-> output_file,
                                      courses |-> courses, story |-> story])
    /\ schoolIdx' = schoolIdx + 1
    /\ UNCHANGED <<rpc, data, dataIdx, schools>>
    /\ UNCHANGED notRender

\* line 182: the layout engine raises on the story; nothing catches it, main
\* ends and the file of this school is not written
BuildFails ==
    /\ rpc = "run"
    /\ dataIdx > Len(data)
    /\ schoolIdx <= Len(schools)
    /\ rpc' = "aborted"
    /\ UNCHANGED <<data, dataIdx, schools, schoolIdx, files, built>>
    /\ UNCHANGED notRender

\* line 193: every school has been built, main returns
FinishRender ==
    /\ rpc = "run"
    /\ dataIdx > Len(data)
    /\ schoolIdx > Len(schools)
    /\ rpc' = "done"
    /\ UNCHANGED <<data, dataIdx, schools, schoolIdx, files, built>>
    /\ UNCHANGED notRender

InitRender ==
    /\ IdleMain
    /\ IdleModules
    /\ rpc = "run"
    /\ data \in SeqUpTo(JsonCourses, MaxCourses)
    /\ dataIdx = 1
    /\ schools = <<>>
    /\ schoolIdx = 1
    /\ files = <<>>
    /\ built = <<>>

NextRender ==
    \/ GroupCourse
    \/ BuildSchool
    \/ BuildFails
    \/ FinishRender

SpecRender == InitRender /\ [][NextRender]_vars

---------------------------------------------------------------------------
(* Claims about the rendering run, checked under SpecRender *)

\* the distinct school values of the array
SchoolsOfData == {data[i].school : i \in 1..Len(data)}

\* the courses of one school, in the order of the array
CoursesOfSchool(s) ==
    LET OfSchool(c) == c.school = s
    IN  SelectSeq(data, OfSchool)

\* C8: a successful run leaves one output file per distinct school value, no
\* two schools share a file, and every file holds the document of its
\* school's courses.
C8_OneFilePerSchool ==
    rpc = "done" =>
        /\ Cardinality(DictKeys(files)) = Cardinality(SchoolsOfData)
        /\ \A i \in 1..Len(built) : DictGet(files, built[i].file) = built[i].story

\* a contents-page link, a course title paragraph, a paragraph defining an anchor
IsTocLink(f) == f.kind = "Paragraph" /\ HasAt(f.text, 1, <<"<","l","i","n","k"," ">>)
IsCourseTitle(f) == f.kind = "Paragraph" /\ f.style = "CourseTitle"
DefinesAnchor(f) == f.kind = "Paragraph" /\ Contains(<<"<","a"," ","n","a","m","e","=">>, f.text)

\* the story has one link and one section per course, in the order of the
\* courses, the k-th link (from 0) targets course_k, which the k-th section
\* and no other paragraph defines, and every section ends with a page break
StoryShape(story, courses) ==
    LET links == SelectSeq(story, IsTocLink)
        heads == SelectSeq(story, IsCourseTitle)
        n == Len(courses)
    IN  /\ Len(links) = n
        /\ Len(heads) = n
        /\ \A k \in 1..n :
               /\ links[k].text = <<"<","l","i","n","k"," ","h","r","e","f","=","\"","#","c","o",
                   "u","r","s","e","_">> \o <<DigitChars[k]>> \o <<"\"",">">>
                                  \o courses[k].title \o <<"<","/","l","i","n","k",">">>
               /\ heads[k].text = <<"<","a"," ","n","a","m","e","=","\"","c","o","u","r","s","e",
                   "_">> \o <<DigitChars[k]>> \o <<"\"","/",">">>
                                  \o courses[k].title
        /\ \A i, j \in 1..Len(story) :
               IsTocLink(story[i]) /\ IsCourseTitle(story[j]) => i < j
        /\ \A j \in 1..Len(story) : DefinesAnchor(story[j]) => IsCourseTitle(story[j])
        /\ \A j \in 2..Len(story) : IsCourseTitle(story[j]) => story[j - 1] = PageBreak
        /\ story[Len(story)] = PageBreak

\* C9: for the N courses of one school, wherever they stand in the array, one
\* document is built; its story has N contents links followed by N course
\* sections in the courses' order, the k-th link targets the anchor the k-th
\* section alone defines, and a page break follows every section.
C9_OneDocumentInOrder ==
    /\ \A i \in 1..Len(built) :
           /\ StoryShape(built[i].story, CoursesOfSchool(built[i].school))
           /\ \A j \in 1..Len(built) : built[j].school = built[i].school => j = i
    /\ rpc = "done" => \A s \in SchoolsOfData : \E i \in 1..Len(built) : built[i].school = s

\* C9 witness: the run is over and built the document of a school whose two
\* courses stand first and third in the array, another school's between them
C9_Witness ==
    /\ rpc = "done"
    /\ Len(data) = 3
    /\ data[1].school = data[3].school
    /\ data[1].school # data[2].school
    /\ data[1].title # data[3].title
    /\ \E i \in 1..Len(built) :
           built[i].school = data[1].school /\ Len(built[i].courses) = 2

===========================================================================
